---- MODULE Spec2Model ----
(***************************************************************************)
(* Model of the pomodoro timer: the React component App (src/src/App.jsx), *)
(* the sql.js entry store (src/src/db.js) and the background timing Web   *)
(* Worker (timerWorker.js, which is not among the source files and is     *)
(* modelled from the specification, section 4.2).                         *)
(*                                                                         *)
(* Time is counted in whole seconds: Date.now() / 1000.  A date string    *)
(* 'YYYY-MM-DD' is the number YYYYMMDD.  Labels are sequences of          *)
(* one-character strings.  A handler                                      *)
(* is an operator from the state (a record) to the state; an action is a  *)
(* handler followed by the React effects that the state change triggers.  *)
(***************************************************************************)
EXTENDS Integers, Sequences, FiniteSets, TLC

VARIABLES
    now,          \* wall clock, Date.now() in seconds
    db,           \* rows of table pomodoros of the in-memory database
    snapshot,     \* localStorage item 'pomodoro_db'
    quota,        \* number of rows a snapshot may hold before setItem throws
    mounted,      \* the component App is mounted
    dbReady,      \* App state
    currentDate,
    pomodoros,
    activeEntry,
    timeLeft,
    isRunning,
    showTimer,
    completedRef,
    tickDue,      \* the countdown interval has a callback due
    armTimer,     \* the pending setTimeout of the init effect
    polls,        \* the worker's active poll loops (their deadlines)
    toMain,       \* number of 'complete' messages of the worker in flight
    lastOp        \* the last step taken

vars == <<now, db, snapshot, quota, mounted, dbReady, currentDate, pomodoros, activeEntry,
          timeLeft, isRunning, showTimer, completedRef, tickDue,
          armTimer, polls, toMain, lastOp>>

----------------------------------------------------------------------------
(* Bounds of the model *)

MaxRows == 1
MaxStoreRows == 3

(* Program constants *)

MIN_DURATION_CENTI == 1
MAX_DURATION == 60
REST_DURATION_MINUTES == 5
SECONDS_PER_MINUTE == 60
MAX_NAME_LENGTH == 100
Today == 20240301

----------------------------------------------------------------------------
(* Values *)

null == [id |-> 0]
NaN == [nan |-> TRUE, value |-> 0]
NULL == -1
NoQuota == 1000
NoSnapshot ==
    [present |-> FALSE, malformed |-> FALSE, hasType |-> TRUE, data |-> <<>>]

Max(a, b) == IF a >= b THEN a ELSE b
Min(a, b) == IF a <= b THEN a ELSE b

RECURSIVE Rep(_, _)
Rep(c, n) == IF n = 0 THEN <<>> ELSE <<c>> \o Rep(c, n - 1)

Dates == {Today, Today + 1}

(* What the user can have typed into the form when pressing Start: the name
   field holds any text, the duration field digits only (handleDurationChange) *)
FormInputs ==
    { [newName |-> <<" ", "a", " ">>, newDuration |-> <<1>>],
      [newName |-> Rep("a", MAX_NAME_LENGTH), newDuration |-> <<6, 0>>],
      [newName |-> <<>>, newDuration |-> <<1>>],
      [newName |-> <<" ">>, newDuration |-> <<6, 0>>],
      [newName |-> <<" ">> \o Rep("a", MAX_NAME_LENGTH + 1), newDuration |-> <<1>>],
      [newName |-> <<" ", "a", " ">>, newDuration |-> <<>>],
      [newName |-> <<" ", "a", " ">>, newDuration |-> <<0>>],
      [newName |-> Rep("a", MAX_NAME_LENGTH), newDuration |-> <<6, 1>>] }

----------------------------------------------------------------------------
(* Pure functions of App.jsx *)

RECURSIVE TrimStart(_)
TrimStart(s) ==
    IF s # <<>> /\ Head(s) = " " THEN TrimStart(Tail(s)) ELSE s

RECURSIVE TrimEnd(_)
TrimEnd(s) ==
    IF s # <<>> /\ s[Len(s)] = " " THEN TrimEnd(SubSeq(s, 1, Len(s) - 1)) ELSE s

trim(s) == TrimEnd(TrimStart(s))

RECURSIVE parseDigits(_, _)
parseDigits(s, acc) ==
    IF s = <<>> THEN acc ELSE parseDigits(Tail(s), acc * 10 + Head(s))

parseFloat(s) ==
    IF s = <<>> THEN NaN ELSE [nan |-> FALSE, value |-> parseDigits(s, 0)]

isNaN(x) == x.nan

(* Fault: the remaining time is the full duration, the elapsed time ignored *)
calculateRemainingTime_full(entry, t) ==
    Max(0, entry.duration * SECONDS_PER_MINUTE)

calculateRemainingTime(entry, t) ==
    LET elapsedSeconds == t - entry.startedAt
        totalSeconds == entry.duration * SECONDS_PER_MINUTE
    IN  Max(0, totalSeconds - elapsedSeconds)

----------------------------------------------------------------------------
(* sounds.js: the two Audio elements, each playing or paused, looping or not *)

Audio == [playing : BOOLEAN, loop : BOOLEAN]
AudioStates == [workCompleteSound : Audio, restCompleteSound : Audio]

stopAllSounds(a) ==
    [workCompleteSound |-> [playing |-> FALSE, loop |-> FALSE],
     restCompleteSound |-> [playing |-> FALSE, loop |-> FALSE]]

----------------------------------------------------------------------------
(* db.js: the entry store, as functions of the table *)

insertRow(d, name, duration, date, startedAt, type) ==
    Append(d, [id |-> Len(d) + 1, name |-> name, duration |-> duration,
               date |-> date, completed |-> 0, startedAt |-> startedAt,
               type |-> type])

(* Fault: the update has no WHERE clause *)
updateCompleted_all(d, id) ==
    [i \in 1..Len(d) |-> [d[i] EXCEPT !.completed = 1]]

(* Fault: the update flips the flag instead of setting it *)
updateCompleted_toggle(d, id) ==
    [i \in 1..Len(d) |-> IF d[i].id = id THEN [d[i] EXCEPT !.completed = 1 - @] ELSE d[i]]

updateCompleted(d, id) ==
    [i \in 1..Len(d) |-> IF d[i].id = id THEN [d[i] EXCEPT !.completed = 1] ELSE d[i]]

RECURSIVE insertSorted(_, _)
insertSorted(e, s) ==
    IF s = <<>> THEN <<e>>
    ELSE IF e.startedAt < Head(s).startedAt THEN <<e>> \o s
    ELSE <<Head(s)>> \o insertSorted(e, Tail(s))

RECURSIVE orderByStartedAt(_)
orderByStartedAt(s) ==
    IF s = <<>> THEN <<>>
    ELSE insertSorted(s[Len(s)], orderByStartedAt(SubSeq(s, 1, Len(s) - 1)))

(* type: row[6] || 'pomodoro' *)
mapRowToEntry(row) ==
    [row EXCEPT !.type = IF @ = "" THEN "pomodoro" ELSE @]

getPomodorosForDate(d, date) ==
    LET onDate(r) == r.date = date
        rows == orderByStartedAt(SelectSeq(d, onDate))
    IN  [i \in 1..Len(rows) |-> mapRowToEntry(rows[i])]

getOngoingEntry(d) ==
    LET open == { i \in 1..Len(d) : d[i].completed = 0 /\ d[i].startedAt # NULL }
    IN  IF open = {} THEN null
        ELSE mapRowToEntry(d[CHOOSE i \in open : \A j \in open : d[j].id <= d[i].id])

(* Fault: the rows of every type are counted *)
getPomodorosForMonth_anyType(d, year, month) ==
    LET pattern == year * 100 + month
        hits == { i \in 1..Len(d) :
                    d[i].date \div 100 = pattern /\ d[i].completed = 1 }
    IN  [date \in { d[i].date : i \in hits } |->
           Cardinality({ i \in hits : d[i].date = date })]

(* date LIKE 'YYYY-MM%': the date's digits before the day are YYYYMM *)
getPomodorosForMonth(d, year, month) ==
    LET pattern == year * 100 + month
        hits == { i \in 1..Len(d) :
                    /\ d[i].date \div 100 = pattern
                    /\ d[i].type = "pomodoro"
                    /\ d[i].completed = 1 }
    IN  [date \in { d[i].date : i \in hits } |->
           Cardinality({ i \in hits : d[i].date = date })]

----------------------------------------------------------------------------
(* The state as a record, so that handlers and effects compose.  Field calls
   collects the calls a step makes to the effect sinks and to saveDb, field
   thrown tells that the handler ended by an exception, field result is
   what the last store function returned, field lastInsertRowid is what
   last_insert_rowid() returns on the database connection *)

Cur ==
    [now |-> now, db |-> db, snapshot |-> snapshot, quota |-> quota,
     mounted |-> mounted, thrown |-> FALSE, lastInsertRowid |-> 0,
     result |-> null, dbReady |-> dbReady,
     currentDate |-> currentDate, pomodoros |-> pomodoros,
     activeEntry |-> activeEntry, timeLeft |-> timeLeft, isRunning |-> isRunning,
     showTimer |-> showTimer, completedRef |-> completedRef,
     tickDue |-> tickDue, armTimer |-> armTimer, polls |-> polls,
     toMain |-> toMain, calls |-> <<>>]

call(s, c) == [s EXCEPT !.calls = Append(@, c)]

(* db.js: saveDb, addPomodoro, addRest, completePomodoro on the state *)

(* db.export() closes the database connection and opens it again, which
   resets last_insert_rowid(); localStorage.setItem throws when the item
   does not fit the quota *)
saveDb(s) ==
    LET s1 == call([s EXCEPT !.lastInsertRowid = 0], "saveDb")
    IN  IF Len(s.db) > s.quota THEN [s1 EXCEPT !.thrown = TRUE]
        ELSE [s1 EXCEPT !.snapshot = [present |-> TRUE, malformed |-> FALSE,
                                      hasType |-> TRUE, data |-> s.db]]

insertEntry(s, name, duration, date, type) ==
    LET startedAt == s.now
        s1 == [s EXCEPT !.db = insertRow(@, name, duration, date, startedAt, type),
                        !.lastInsertRowid = Len(s.db) + 1]
        s2 == saveDb(s1)
    IN  IF s2.thrown THEN s2
        ELSE [s2 EXCEPT !.result = [id |-> s2.lastInsertRowid,
                                    startedAt |-> startedAt]]

addPomodoro(s, name, duration, date) ==
    insertEntry(s, name, duration, date, "pomodoro")

(* Fault: the rest row is inserted by the statement of addPomodoro *)
addRest_asWork(s, duration, date) ==
    insertEntry(s, <<"R", "e", "s", "t">>, duration, date, "pomodoro")

addRest(s, duration, date) ==
    insertEntry(s, <<"R", "e", "s", "t">>, duration, date, "rest")

(* Fault: the update is not followed by saveDb *)
completePomodoro_unsaved(s, id) ==
    [s EXCEPT !.db = updateCompleted(@, id)]

completePomodoro(s, id) ==
    saveDb([s EXCEPT !.db = updateCompleted(@, id)])

(* timerWorker.js: the worker's handling of the messages 'start' and 'stop' *)

(* Fault: 'start' sets a new interval without clearing the one before *)
workerStart_keepPrevious(s, endTime) == [s EXCEPT !.polls = @ \cup {endTime}]

workerStart(s, endTime) == [s EXCEPT !.polls = {endTime}]

(* Fault: 'stop' is not handled *)
workerStop_ignored(s) == s

workerStop(s) == [s EXCEPT !.polls = {}]

(* React: setActiveEntry with a fresh object re-creates the countdown interval,
   setIsRunning(false) clears it (the interval effect's dependencies) *)

setActiveEntry(s, e) == [s EXCEPT !.activeEntry = e, !.tickDue = FALSE]

(* Fault: setIsRunning(false) has no effect *)
setIsRunning_onlyTrue(s, b) ==
    IF b THEN [s EXCEPT !.isRunning = TRUE,
                        !.tickDue = IF s.isRunning THEN @ ELSE FALSE]
    ELSE s

setIsRunning(s, b) ==
    [s EXCEPT !.isRunning = b, !.tickDue = IF b = s.isRunning THEN @ ELSE FALSE]

----------------------------------------------------------------------------
(* Effects of App *)

(* Fetch data when view or date changes: runs when its dependencies changed.
   The view is 'day' whenever a step ends (see SelectDay) *)
fetchEffect(old, s) ==
    IF <<old.dbReady, old.currentDate, old.showTimer>>
         = <<s.dbReady, s.currentDate, s.showTimer>>
       \/ ~s.dbReady \/ s.showTimer
    THEN s
    ELSE [s EXCEPT !.pomodoros = getPomodorosForDate(s.db, s.currentDate)]

(* React: an exception thrown by an effect unmounts the component tree; the
   cleanups terminate the worker and clear the interval, the component's
   state is gone, the database of the module stays *)
unmount(s) ==
    [s EXCEPT !.mounted = FALSE, !.dbReady = FALSE,
              !.currentDate = Today, !.pomodoros = <<>>, !.activeEntry = null,
              !.timeLeft = 0, !.isRunning = FALSE, !.showTimer = FALSE,
              !.completedRef = 0, !.tickDue = FALSE,
              !.armTimer = NULL, !.polls = {}, !.toMain = 0]

(* Fault: the end of a rest is neither notified nor sounded *)
completionEffect_restSilent(s) ==
    IF ~s.isRunning \/ s.activeEntry = null \/ s.timeLeft > 0 THEN s
    ELSE IF s.completedRef = s.activeEntry.id THEN s
    ELSE
      LET s1 == completePomodoro([s EXCEPT !.completedRef = s.activeEntry.id],
                                 s.activeEntry.id)
      IN  IF s1.thrown THEN unmount(s1)
          ELSE IF s.activeEntry.type = "pomodoro"
          THEN LET s2 == call(call(s1, "showTimerComplete:pomodoro"), "playWorkComplete")
                   s3 == addRest(s2, REST_DURATION_MINUTES, s.currentDate)
                   s4 == setActiveEntry(s3, getOngoingEntry(s3.db))
                   s5 == [s4 EXCEPT
                            !.timeLeft = REST_DURATION_MINUTES * SECONDS_PER_MINUTE,
                            !.pomodoros = getPomodorosForDate(s3.db, s.currentDate)]
               IN  IF s3.thrown THEN unmount(s3)
                   ELSE workerStart(s5, s.now + REST_DURATION_MINUTES * SECONDS_PER_MINUTE)
          ELSE LET s3 == workerStop(s1)
                   s4 == [s3 EXCEPT !.pomodoros = getPomodorosForDate(s3.db, s.currentDate)]
                   s5 == setActiveEntry(setIsRunning(s4, FALSE), null)
               IN  [s5 EXCEPT !.completedRef = 0]

(* Handle timer completion (pomodoro -> rest transition, or rest -> done) *)
completionEffect(s) ==
    IF ~s.isRunning \/ s.activeEntry = null \/ s.timeLeft > 0 THEN s
    ELSE IF s.completedRef = s.activeEntry.id THEN s
    ELSE
      LET s1 == completePomodoro([s EXCEPT !.completedRef = s.activeEntry.id],
                                 s.activeEntry.id)
      IN  IF s1.thrown THEN unmount(s1)
          ELSE IF s.activeEntry.type = "pomodoro"
          THEN LET s2 == call(call(s1, "showTimerComplete:pomodoro"), "playWorkComplete")
                   s3 == addRest(s2, REST_DURATION_MINUTES, s.currentDate)
                   s4 == setActiveEntry(s3, getOngoingEntry(s3.db))
                   s5 == [s4 EXCEPT
                            !.timeLeft = REST_DURATION_MINUTES * SECONDS_PER_MINUTE,
                            !.pomodoros = getPomodorosForDate(s3.db, s.currentDate)]
               IN  IF s3.thrown THEN unmount(s3)
                   ELSE workerStart(s5, s.now + REST_DURATION_MINUTES * SECONDS_PER_MINUTE)
          ELSE LET s2 == call(call(s1, "showTimerComplete:rest"), "playRestComplete")
                   s3 == workerStop(s2)
                   s4 == [s3 EXCEPT !.pomodoros = getPomodorosForDate(s3.db, s.currentDate)]
                   s5 == setActiveEntry(setIsRunning(s4, FALSE), null)
               IN  [s5 EXCEPT !.completedRef = 0]

(* The effects a state change triggers, run after the handler that made it *)
effects(old, s) ==
    completionEffect(fetchEffect(old, [s EXCEPT !.thrown = FALSE]))

Commit(s, op) ==
    /\ now' = s.now
    /\ db' = s.db
    /\ snapshot' = s.snapshot
    /\ quota' = s.quota
    /\ mounted' = s.mounted
    /\ dbReady' = s.dbReady
    /\ currentDate' = s.currentDate
    /\ pomodoros' = s.pomodoros
    /\ activeEntry' = s.activeEntry
    /\ timeLeft' = s.timeLeft
    /\ isRunning' = s.isRunning
    /\ showTimer' = s.showTimer
    /\ completedRef' = s.completedRef
    /\ tickDue' = s.tickDue
    /\ armTimer' = s.armTimer
    /\ polls' = s.polls
    /\ toMain' = s.toMain
    /\ lastOp' = op

----------------------------------------------------------------------------
(* Handlers of App, as functions of the state *)

(* Fault: the column is added without a default *)
addTypeColumn_noDefault(d) == d

(* ALTER TABLE pomodoros ADD COLUMN type TEXT DEFAULT 'pomodoro' *)
addTypeColumn(d) == [i \in 1..Len(d) |-> [d[i] EXCEPT !.type = "pomodoro"]]

(* Fault: the migration is not followed by saveDb *)
initDb_unsavedMigration(s) ==
    IF ~s.snapshot.present THEN [s EXCEPT !.db = <<>>]
    ELSE IF s.snapshot.malformed THEN [s EXCEPT !.thrown = TRUE]
    ELSE IF ~s.snapshot.hasType
         THEN [s EXCEPT !.db = addTypeColumn(s.snapshot.data)]
    ELSE [s EXCEPT !.db = s.snapshot.data]

(* db.js initDb: load the saved database and add the column type if it has
   none, or create an empty database.  A saved item that does not decode to
   a database with the table pomodoros makes atob, PRAGMA or ALTER TABLE
   throw *)
initDb(s) ==
    IF ~s.snapshot.present THEN [s EXCEPT !.db = <<>>]
    ELSE IF s.snapshot.malformed THEN [s EXCEPT !.thrown = TRUE]
    ELSE IF ~s.snapshot.hasType
         THEN saveDb([s EXCEPT !.db = addTypeColumn(s.snapshot.data)])
    ELSE [s EXCEPT !.db = s.snapshot.data]

(* Fault: an ongoing entry is resumed whatever its remaining time *)
initEffect_alwaysResume(s) ==
    LET s1 == [initDb(s) EXCEPT !.dbReady = TRUE]
        ongoing == getOngoingEntry(s1.db)
    IN  IF ongoing = null THEN s1
        ELSE LET remaining == calculateRemainingTime(ongoing, s.now)
             IN  [setIsRunning(setActiveEntry(s1, ongoing), TRUE) EXCEPT
                    !.timeLeft = remaining, !.armTimer = remaining]

(* Initialize database and restore any ongoing timer *)
initEffect(s) ==
    LET s0 == initDb(s)
        s1 == [s0 EXCEPT !.dbReady = TRUE]
        ongoing == getOngoingEntry(s1.db)
    IN  IF s0.thrown THEN s0
        ELSE IF ongoing = null THEN s1
        ELSE LET remaining == calculateRemainingTime(ongoing, s.now)
             IN  IF remaining > 0
                 THEN [setIsRunning(setActiveEntry(s1, ongoing), TRUE) EXCEPT
                         !.timeLeft = remaining, !.armTimer = remaining]
                 ELSE completePomodoro(s1, ongoing.id)

(* The callback of the init effect's setTimeout *)
armTimeout(s) ==
    [workerStart(s, s.now + s.armTimer) EXCEPT !.armTimer = NULL]

(* Fault: the length of the name is not checked *)
validName_noMax(newName) ==
    LET trimmedName == trim(newName)
    IN  ~(trimmedName = <<>>)

validName(newName) ==
    LET trimmedName == trim(newName)
    IN  ~(trimmedName = <<>> \/ Len(trimmedName) > MAX_NAME_LENGTH)

(* Fault: the lower limit of the duration is not checked *)
validDuration_noMin(newDuration) ==
    LET duration == parseFloat(newDuration)
    IN  ~(isNaN(duration) \/ duration.value > MAX_DURATION)

validDuration(newDuration) ==
    LET duration == parseFloat(newDuration)
    IN  ~(isNaN(duration) \/ duration.value * 100 < MIN_DURATION_CENTI
                          \/ duration.value > MAX_DURATION)

(* Fault: the start does not set the remaining time *)
handleStartPomodoro_keepTimeLeft(s, newName, newDuration) ==
    IF ~validName(newName) THEN s
    ELSE IF ~validDuration(newDuration) THEN s
    ELSE
      LET trimmedName == trim(newName)
          duration == parseFloat(newDuration).value
          s1 == call(call(s, "unlockAudio"), "requestPermission")
          s2 == addPomodoro(s1, trimmedName, duration, s.currentDate)
          s3 == setIsRunning(setActiveEntry(s2, getOngoingEntry(s2.db)), TRUE)
          s4 == [s3 EXCEPT !.showTimer = TRUE,
                           !.pomodoros = getPomodorosForDate(s2.db, s.currentDate)]
      IN  IF s2.thrown THEN s2
          ELSE workerStart(s4, s.now + duration * SECONDS_PER_MINUTE)

handleStartPomodoro(s, newName, newDuration) ==
    IF ~validName(newName) THEN s
    ELSE IF ~validDuration(newDuration) THEN s
    ELSE
      LET trimmedName == trim(newName)
          duration == parseFloat(newDuration).value
          s1 == call(call(s, "unlockAudio"), "requestPermission")
          s2 == addPomodoro(s1, trimmedName, duration, s.currentDate)
          s3 == setIsRunning(setActiveEntry(s2, getOngoingEntry(s2.db)), TRUE)
          s4 == [s3 EXCEPT !.timeLeft = duration * SECONDS_PER_MINUTE,
                           !.showTimer = TRUE,
                           !.pomodoros = getPomodorosForDate(s2.db, s.currentDate)]
      IN  IF s2.thrown THEN s2
          ELSE workerStart(s4, s.now + duration * SECONDS_PER_MINUTE)

handleEntryClick(s, entry) ==
    IF entry.completed # 0 \/ entry.startedAt = NULL \/ entry.startedAt = 0 THEN s
    ELSE
      LET remaining == calculateRemainingTime(entry, s.now)
      IN  IF remaining > 0
          THEN LET s1 == call(call(s, "unlockAudio"), "requestPermission")
                   ongoing == getOngoingEntry(s.db)
               IN  IF ongoing = null THEN s1
                   ELSE LET s2 == setIsRunning(setActiveEntry(s1, ongoing), TRUE)
                            s3 == [s2 EXCEPT !.timeLeft = remaining, !.showTimer = TRUE]
                        IN  workerStart(s3, s.now + remaining)
          ELSE LET s1 == completePomodoro(s, entry.id)
               IN  IF s1.thrown THEN s1
                   ELSE [s1 EXCEPT !.pomodoros =
                                     getPomodorosForDate(s1.db, s.currentDate)]

(* Fault: manual completion sets the remaining time to zero and leaves the
   rest to the completion effect *)
handleManualComplete_viaZero(s) ==
    IF s.activeEntry = null THEN s
    ELSE [s EXCEPT !.timeLeft = 0]

(* Fault: the worker is not told to stop *)
handleManualComplete_keepClock(s) ==
    IF s.activeEntry = null THEN s
    ELSE
      LET s1 == completePomodoro(s, s.activeEntry.id)
          s2 == [s1 EXCEPT !.pomodoros = getPomodorosForDate(s1.db, s.currentDate),
                           !.showTimer = FALSE]
      IN  setActiveEntry(setIsRunning(s2, FALSE), null)

handleManualComplete(s) ==
    IF s.activeEntry = null THEN s
    ELSE
      LET s1 == completePomodoro(workerStop(s), s.activeEntry.id)
          s2 == [s1 EXCEPT !.pomodoros = getPomodorosForDate(s1.db, s.currentDate),
                           !.showTimer = FALSE]
      IN  IF s1.thrown THEN s1
          ELSE setActiveEntry(setIsRunning(s2, FALSE), null)

(* Fault: the sounds are stopped only while a timer runs *)
handleVisibilityChange_whileRunning(s) ==
    IF s.isRunning /\ s.activeEntry # null
    THEN [call(s, "stopAllSounds") EXCEPT
            !.timeLeft = calculateRemainingTime(s.activeEntry, s.now)]
    ELSE s

handleVisibilityChange(s) ==
    LET s1 == call(s, "stopAllSounds")
    IN  IF s.isRunning /\ s.activeEntry # null
        THEN [s1 EXCEPT !.timeLeft = calculateRemainingTime(s.activeEntry, s.now)]
        ELSE s1

(* setView('month'), then selectDay: the fetch effect runs for the day view it
   returns to, whether or not the date changed *)
selectDay(s, day) ==
    LET s1 == [s EXCEPT !.currentDate = day]
    IN  IF s.showTimer THEN s1
        ELSE [s1 EXCEPT !.pomodoros = getPomodorosForDate(s.db, day)]

(* The countdown interval's callback *)
tick(s) == [s EXCEPT !.timeLeft = @ - 1, !.tickDue = FALSE]

(* Fault: the handler does not set the remaining time to zero *)
onmessage_ignored(s) == [s EXCEPT !.toMain = @ - 1]

(* The worker's onmessage handler in App *)
onmessage(s) == [s EXCEPT !.timeLeft = 0, !.toMain = @ - 1]

(* timerWorker.js: a poll that finds its deadline reached posts 'complete'
   and clears its interval *)
(* Fault: the interval is not cleared after the event is posted *)
workerPoll_keepPolling(s, endTime) == [s EXCEPT !.toMain = @ + 1]

workerPoll(s, endTime) ==
    [s EXCEPT !.toMain = @ + 1, !.polls = @ \ {endTime}]

(* The page is loaded anew: the component's state is initial, the worker and
   the timers of the old page are gone, the database is not loaded yet *)
reload(s) ==
    [s EXCEPT !.db = <<>>, !.dbReady = FALSE, !.mounted = TRUE,
              !.currentDate = Today, !.pomodoros = <<>>, !.activeEntry = null,
              !.timeLeft = 0, !.isRunning = FALSE, !.showTimer = FALSE,
              !.completedRef = 0, !.tickDue = FALSE,
              !.armTimer = NULL, !.polls = {}, !.toMain = 0]

----------------------------------------------------------------------------
(* What is on screen: which controls the user can reach *)

TimerView == dbReady /\ activeEntry # null /\ showTimer
MainView == dbReady /\ ~(activeEntry # null /\ showTimer)
FormReachable == MainView /\ currentDate = Today

----------------------------------------------------------------------------
(* The passage of time *)

EntryDeadline(e) == e.startedAt + e.duration * SECONDS_PER_MINUTE

StoredRows == IF dbReady THEN db ELSE snapshot.data

(* The instants at which something is due: the deadlines of the entries not
   completed, of the active entry and of the worker's polls *)
Deadlines ==
    { EntryDeadline(StoredRows[i]) :
        i \in { k \in 1..Len(StoredRows) :
                  StoredRows[k].completed = 0 /\ StoredRows[k].startedAt # NULL } }
    \cup (IF activeEntry # null THEN {EntryDeadline(activeEntry)} ELSE {})
    \cup polls

Counting == isRunning /\ activeEntry # null

(* The instants the clock is observed at: the last second before each deadline
   and the deadline itself *)
Landings == { t \in UNION { {d - 1, d} : d \in Deadlines } : now < t }

(* dt seconds pass, in which the countdown interval fires `fired` times without
   bringing the display to zero, and after which one callback is due *)
elapse(s, dt, fired) ==
    [s EXCEPT !.now = @ + dt, !.timeLeft = @ - fired, !.tickDue = Counting]

Fireable(dt) ==
    IF Counting /\ timeLeft >= 1
    THEN {0, Min(dt - 1 + (IF tickDue THEN 1 ELSE 0), timeLeft - 1)}
    ELSE {0}

----------------------------------------------------------------------------
(* Actions: a handler, then the effects its state change triggers *)

Step(s, op) == Commit(effects(Cur, s), op)

(* lastOp names the step taken and, where a handler branches, the branch *)
InitBranch ==
    LET ongoing == getOngoingEntry(initDb(Cur).db)
    IN  IF initDb(Cur).thrown THEN "init:failed"
        ELSE IF ongoing = null THEN "init"
        ELSE IF calculateRemainingTime(ongoing, now) > 0 THEN "init:resume"
        ELSE "init:expired"

StartBranch(in) ==
    IF handleStartPomodoro(Cur, in.newName, in.newDuration) = Cur
    THEN "start:rejected" ELSE "start"

InitEffect ==
    /\ mounted /\ ~dbReady
    /\ Step(initEffect(Cur), InitBranch)

ArmTimeout ==
    /\ armTimer # NULL
    /\ Step(armTimeout(Cur), "armTimeout")

(* The user opens the form (handleShowForm), types and presses Start *)
StartWith(in) ==
    /\ FormReachable
    /\ Step(handleStartPomodoro(Cur, in.newName, in.newDuration), StartBranch(in))

StartPomodoro ==
    \E in \in FormInputs :
        /\ Len(db) < MaxRows
        /\ StartWith(in)

EntryClick ==
    \E i \in 1..Len(pomodoros) :
        /\ MainView
        /\ Step(handleEntryClick(Cur, pomodoros[i]), "click")

ManualComplete ==
    /\ TimerView
    /\ Step(handleManualComplete(Cur), "manual")

HideTimer ==
    /\ TimerView
    /\ Step([Cur EXCEPT !.showTimer = FALSE], "ui")

(* The user switches to the month view and picks a day (selectDay): the fetch
   effect runs for the day view it returns to *)
SelectDay ==
    \E day \in Dates :
        /\ MainView
        /\ Step(selectDay(Cur, day), "ui")

VisibilityChange ==
    /\ mounted
    /\ Step(handleVisibilityChange(Cur), "visible")

Tick ==
    /\ Counting /\ tickDue
    /\ Step(tick(Cur), "tick")

WorkerPoll ==
    \E endTime \in polls :
        /\ now >= endTime
        /\ Step(workerPoll(Cur, endTime), "poll")

WorkerMessage ==
    /\ toMain > 0
    /\ Step(onmessage(Cur), "message")

Reload ==
    Step(reload(Cur), "reload")

(* Time passes.  The init effect's timeout of 100 ms fires within the second
   it was set in *)
Elapse ==
    \E t \in Landings : \E fired \in Fireable(t - now) :
        /\ armTimer = NULL
        /\ Step(elapse(Cur, t - now, fired), "elapse")

Init ==
    /\ now = 1
    /\ db = <<>>
    /\ snapshot = NoSnapshot
    /\ quota = NoQuota
    /\ mounted = TRUE
    /\ dbReady = FALSE
    /\ currentDate = Today
    /\ pomodoros = <<>>
    /\ activeEntry = null
    /\ timeLeft = 0
    /\ isRunning = FALSE
    /\ showTimer = FALSE
    /\ completedRef = 0
    /\ tickDue = FALSE
    /\ armTimer = NULL
    /\ polls = {}
    /\ toMain = 0
    /\ lastOp = "load"

Next ==
    \/ InitEffect
    \/ ArmTimeout
    \/ StartPomodoro
    \/ EntryClick
    \/ ManualComplete
    \/ HideTimer
    \/ SelectDay
    \/ VisibilityChange
    \/ Tick
    \/ WorkerPoll
    \/ WorkerMessage
    \/ Reload
    \/ Elapse

Spec == Init /\ [][Next]_vars

(* A second specification, in which the user starts one pomodoro more *)
StartAnother ==
    \E in \in FormInputs :
        /\ Len(db) = MaxRows
        /\ StartWith(in)

NextTwo == Next \/ StartAnother

SpecTwo == Init /\ [][NextTwo]_vars

(* The same program in an environment that can fail it: the saved item is
   absent, is not a database, or is a database of an earlier version whose
   table has no column type and whose row was never started; localStorage
   has room for the rows the user starts but not for one row more, or for
   all rows *)
LegacyRow(id, date, completed) ==
    [id |-> id, name |-> <<"a">>, duration |-> 25, date |-> date,
     completed |-> completed, startedAt |-> NULL, type |-> ""]

MalformedSnapshot ==
    [present |-> TRUE, malformed |-> TRUE, hasType |-> FALSE, data |-> <<>>]

LegacySnapshot ==
    [present |-> TRUE, malformed |-> FALSE, hasType |-> FALSE,
     data |-> <<LegacyRow(1, Today, 0)>>]

StoredSnapshots == {NoSnapshot, MalformedSnapshot, LegacySnapshot}

Quotas == {MaxRows, NoQuota}

InitFaults ==
    /\ now = 1
    /\ db = <<>>
    /\ snapshot \in StoredSnapshots
    /\ quota \in Quotas
    /\ mounted = TRUE
    /\ dbReady = FALSE
    /\ currentDate = Today
    /\ pomodoros = <<>>
    /\ activeEntry = null
    /\ timeLeft = 0
    /\ isRunning = FALSE
    /\ showTimer = FALSE
    /\ completedRef = 0
    /\ tickDue = FALSE
    /\ armTimer = NULL
    /\ polls = {}
    /\ toMain = 0
    /\ lastOp = "load"

SpecFaults == InitFaults /\ [][Next]_vars

----------------------------------------------------------------------------
(* The entry store by itself: a caller of the functions db.js exports.  The
   saved item is absent or a database of an earlier version; dbReady tells
   that initDb has returned *)

StoreDates == {20240301, 20240302, 20240401}
StoreMonths == { [year |-> 2024, month |-> 3], [year |-> 2024, month |-> 4] }
StoreInstants == {1, 2}

LegacyStore ==
    [present |-> TRUE, malformed |-> FALSE, hasType |-> FALSE,
     data |-> <<LegacyRow(1, 20240301, 1), LegacyRow(2, 20240301, 0)>>]

StoreInit ==
    /\ ~dbReady
    /\ ~initDb(Cur).thrown
    /\ Commit([initDb(Cur) EXCEPT !.dbReady = TRUE], "store:init")

StoreAddPomodoro ==
    \E date \in StoreDates :
        /\ dbReady /\ Len(db) < MaxStoreRows
        /\ Commit(addPomodoro(Cur, <<"a">>, 25, date), "store:addPomodoro")

StoreAddRest ==
    \E date \in StoreDates :
        /\ dbReady /\ Len(db) < MaxStoreRows
        /\ Commit(addRest(Cur, REST_DURATION_MINUTES, date), "store:addRest")

StoreComplete ==
    \E id \in 1..Len(db) :
        /\ dbReady
        /\ Commit(completePomodoro(Cur, id), "store:complete")

StoreReload ==
    /\ dbReady
    /\ Commit(reload(Cur), "store:reload")

StoreClock ==
    /\ now + 1 \in StoreInstants
    /\ Commit([Cur EXCEPT !.now = @ + 1], "store:clock")

InitStore ==
    /\ now = 1
    /\ db = <<>>
    /\ snapshot \in {NoSnapshot, LegacyStore}
    /\ quota = NoQuota
    /\ mounted = TRUE
    /\ dbReady = FALSE
    /\ currentDate = Today
    /\ pomodoros = <<>>
    /\ activeEntry = null
    /\ timeLeft = 0
    /\ isRunning = FALSE
    /\ showTimer = FALSE
    /\ completedRef = 0
    /\ tickDue = FALSE
    /\ armTimer = NULL
    /\ polls = {}
    /\ toMain = 0
    /\ lastOp = "load"

NextStore ==
    \/ StoreInit
    \/ StoreAddPomodoro
    \/ StoreAddRest
    \/ StoreComplete
    \/ StoreReload
    \/ StoreClock

SpecStore == InitStore /\ [][NextStore]_vars

----------------------------------------------------------------------------
(* The application left to itself in a tab that may be in the background:
   the page loads, with no saved item or with a saved Work entry that is
   running, the user starts a pomodoro only while none is running and gives
   no other command.  The worker's interval keeps polling, its messages are delivered,
   the timeout of the init effect fires and the clock advances; the
   countdown interval of the page may fire or not (throttling), and the tab
   may become visible or not *)
RunningSnapshot ==
    [present |-> TRUE, malformed |-> FALSE, hasType |-> TRUE,
     data |-> <<[id |-> 1, name |-> <<"a">>, duration |-> 1, date |-> Today,
                 completed |-> 0, startedAt |-> 1, type |-> "pomodoro"]>>]

LoadInstants == {1, 31}

InitLive ==
    /\ now \in LoadInstants
    /\ db = <<>>
    /\ snapshot \in {NoSnapshot, RunningSnapshot}
    /\ quota = NoQuota
    /\ mounted = TRUE
    /\ dbReady = FALSE
    /\ currentDate = Today
    /\ pomodoros = <<>>
    /\ activeEntry = null
    /\ timeLeft = 0
    /\ isRunning = FALSE
    /\ showTimer = FALSE
    /\ completedRef = 0
    /\ tickDue = FALSE
    /\ armTimer = NULL
    /\ polls = {}
    /\ toMain = 0
    /\ lastOp = "load"

(* The only command of the user: a start while nothing is running *)
StartWhenIdle == ~isRunning /\ activeEntry = null /\ StartPomodoro

NextLive ==
    \/ InitEffect
    \/ ArmTimeout
    \/ StartWhenIdle
    \/ VisibilityChange
    \/ Tick
    \/ WorkerPoll
    \/ WorkerMessage
    \/ Elapse

(* The delivery of a message is weakly fair; a message can be delivered
   exactly when one is in flight, which is written out here *)
SpecLive ==
    /\ InitLive /\ [][NextLive]_vars
    /\ WF_vars(InitEffect)
    /\ WF_vars(ArmTimeout)
    /\ WF_vars(WorkerPoll)
    /\ WF_vars(Elapse)
    /\ ([]<>(toMain = 0) \/ []<><<WorkerMessage>>_vars)

----------------------------------------------------------------------------
(* Vocabulary of the properties *)

Incomplete(d) == { i \in 1..Len(d) : d[i].completed = 0 }
Rests(d) == { i \in 1..Len(d) : d[i].type = "rest" }
SinkCalls(s) == SelectSeq(s.calls, LAMBDA c : c # "saveDb")
Idle == ~isRunning /\ activeEntry = null

(* d2 is d with row id marked completed and nothing else changed *)
OnlyCompleted(d, d2, id) ==
    /\ Len(d2) = Len(d)
    /\ \A i \in 1..Len(d) :
         d2[i] = IF d[i].id = id THEN [d[i] EXCEPT !.completed = 1] ELSE d[i]

(* C1: in every reachable state the store holds at most one entry that is
   not completed, also when start is issued while another entry is running *)
C1_AtMostOneIncomplete == Cardinality(Incomplete(StoredRows)) <= 1

(* C2: when the countdown of a running Work entry is observed at zero, by the
   foreground tick or by the background signal, that step marks the Work
   entry complete, inserts exactly one Rest entry of 5 minutes started at
   that moment, leaves the engine running that Rest entry and arms the
   background clock for it *)
ZeroObserved == (Tick /\ timeLeft <= 1) \/ WorkerMessage

C2_WorkCompletesIntoRest ==
    [][ (ZeroObserved /\ Counting /\ activeEntry.type = "pomodoro") =>
          /\ Len(db') = Len(db) + 1
          /\ OnlyCompleted(db, SubSeq(db', 1, Len(db)), activeEntry.id)
          /\ db'[activeEntry.id].completed = 1
          /\ LET rest == db'[Len(db')]
             IN  /\ rest.type = "rest"
                 /\ rest.duration = REST_DURATION_MINUTES
                 /\ rest.completed = 0
                 /\ rest.startedAt = now
                 /\ rest.id = Len(db')
                 /\ activeEntry' = rest
                 /\ polls' = {rest.startedAt + rest.duration * SECONDS_PER_MINUTE}
          /\ isRunning'
          /\ timeLeft' = REST_DURATION_MINUTES * SECONDS_PER_MINUTE ]_vars

C2_Witness ==
    /\ lastOp = "message"
    /\ Counting /\ activeEntry.type = "rest"
    /\ activeEntry.startedAt = now
    /\ db[activeEntry.id - 1].type = "pomodoro"
    /\ db[activeEntry.id - 1].completed = 1
    /\ now >= EntryDeadline(db[activeEntry.id - 1])
    /\ polls = {EntryDeadline(activeEntry)}

(* C3: a completion signal delivered while a Rest entry is running and its
   own deadline is not reached, so a signal of the Work entry before it,
   leaves the store as it is: the Rest entry is not marked complete and no
   entry is created *)
C3_StaleSignalIgnored ==
    [][ (WorkerMessage /\ Counting /\ activeEntry.type = "rest"
           /\ now < EntryDeadline(activeEntry)) => db' = db ]_vars

(* C4: when the page loads with a saved incomplete entry whose deadline has
   passed, the load marks that entry complete and nothing else: no Rest
   entry is inserted, the engine is Idle, the worker is not armed and no
   arming is scheduled, no notification is shown and no sound is played *)
C4_ExpiredResumeCompletesOnly ==
    [][ LET ongoing == getOngoingEntry(snapshot.data)
        IN  (InitEffect /\ snapshot.present /\ ongoing # null
               /\ now >= EntryDeadline(ongoing)) =>
              /\ OnlyCompleted(snapshot.data, db', ongoing.id)
              /\ db'[ongoing.id].completed = 1
              /\ Rests(db') = Rests(snapshot.data)
              /\ snapshot'.data = db'
              /\ ~isRunning' /\ activeEntry' = null
              /\ polls' = {} /\ armTimer' = NULL /\ toMain' = 0
              /\ SinkCalls(effects(Cur, initEffect(Cur))) = <<>> ]_vars

C4_Witness ==
    /\ lastOp = "init:expired"
    /\ Idle /\ polls = {} /\ armTimer = NULL
    /\ \E i \in 1..Len(db) :
         /\ db[i].type = "pomodoro" /\ db[i].completed = 1
         /\ now >= EntryDeadline(db[i])
    /\ Rests(db) = {}

(* C5: when the page loads with a saved incomplete entry whose deadline is
   in the future, the load leaves the store as saved, makes that entry the
   active entry of a running engine, sets the remaining time to deadline
   minus now, and schedules the arming of the worker, which arms it for the
   entry's deadline *)
C5_FutureResumeRuns ==
    /\ [][ LET ongoing == getOngoingEntry(snapshot.data)
           IN  (InitEffect /\ snapshot.present /\ ongoing # null
                  /\ now < EntryDeadline(ongoing)) =>
                 /\ db' = snapshot.data
                 /\ snapshot' = snapshot
                 /\ isRunning' /\ activeEntry' = ongoing
                 /\ timeLeft' = EntryDeadline(ongoing) - now
                 /\ armTimer' = EntryDeadline(ongoing) - now ]_vars
    /\ [][ (ArmTimeout /\ lastOp = "init:resume") =>
             polls' = {EntryDeadline(activeEntry)} ]_vars

C5_Witness ==
    /\ lastOp = "armTimeout"
    /\ Counting /\ polls = {EntryDeadline(activeEntry)}
    /\ now > activeEntry.startedAt
    /\ timeLeft = EntryDeadline(activeEntry) - now
    /\ Incomplete(db) = {activeEntry.id}

(* C6: manual completion marks the active entry complete and changes no
   other row, inserts nothing, stops the worker and leaves the engine Idle;
   a signal emitted or delivered while the engine is Idle changes nothing
   in the store and leaves the engine Idle *)
C6_ManualCompleteNeverChains ==
    /\ [][ ManualComplete =>
             /\ OnlyCompleted(db, db', activeEntry.id)
             /\ db'[activeEntry.id].completed = 1
             /\ snapshot'.data = db'
             /\ ~isRunning' /\ activeEntry' = null
             /\ polls' = {} ]_vars
    /\ [][ ((WorkerMessage \/ WorkerPoll) /\ Idle) =>
             /\ db' = db /\ snapshot' = snapshot
             /\ ~isRunning' /\ activeEntry' = null ]_vars

C6_Witness ==
    /\ lastOp = "manual"
    /\ Idle /\ polls = {}
    /\ toMain > 0
    /\ Len(db) >= 1 /\ Incomplete(db) = {} /\ Rests(db) = {}

(* C7: a start is accepted exactly when the label without its surrounding
   spaces has 1 to 100 characters and the duration is a number greater than
   0 and at most 60; an accepted start inserts one Work row, a rejected
   start changes nothing and calls nothing *)
NonSpace(str) == { i \in 1..Len(str) : str[i] # " " }

TrimmedLength(str) ==
    IF NonSpace(str) = {} THEN 0
    ELSE (CHOOSE i \in NonSpace(str) : \A j \in NonSpace(str) : j <= i)
         - (CHOOSE i \in NonSpace(str) : \A j \in NonSpace(str) : j >= i) + 1

Acceptable(in) ==
    /\ TrimmedLength(in.newName) \in 1..100
    /\ in.newDuration # <<>>
    /\ parseFloat(in.newDuration).value > 0
    /\ parseFloat(in.newDuration).value <= 60

C7_StartAcceptedIffValid ==
    [][ \A in \in FormInputs :
          (lastOp' \in {"start", "start:rejected"} /\ StartWith(in)) =>
            IF Acceptable(in)
            THEN /\ Len(db') = Len(db) + 1
                 /\ SubSeq(db', 1, Len(db)) = db
                 /\ db'[Len(db')].type = "pomodoro"
                 /\ Len(db'[Len(db')].name) = TrimmedLength(in.newName)
                 /\ db'[Len(db')].duration = parseFloat(in.newDuration).value
                 /\ snapshot'.data = db'
            ELSE /\ UNCHANGED <<now, db, snapshot, quota, mounted, dbReady, currentDate,
                               pomodoros, activeEntry, timeLeft, isRunning,
                               showTimer, completedRef, tickDue, armTimer,
                               polls, toMain>>
                 /\ handleStartPomodoro(Cur, in.newName, in.newDuration).calls
                      = <<>> ]_vars

C7_Witness ==
    /\ lastOp = "start:rejected"
    /\ Idle /\ db = <<>> /\ ~snapshot.present /\ polls = {}

(* C8: a foreground tick changes no row of the store: it marks no entry
   complete and creates no Rest entry *)
C8_TickNeverCompletes ==
    [][ Tick => db' = db ]_vars

(* C9: regaining visibility changes only the displayed remaining time: the
   store, the active entry, the running flag and the worker stay as they
   are, also when the deadline of the active entry has passed *)
C9_ReconcileOnlyDisplay ==
    [][ VisibilityChange =>
          UNCHANGED <<db, snapshot, activeEntry, isRunning, polls>> ]_vars

(* C10: the worker polls for at most one deadline at any moment, and a
   completion event is emitted only for the deadline armed last, whose poll
   ends with the emission *)
C10_OnePollLoop ==
    /\ [](Cardinality(polls) <= 1)
    /\ [][ toMain' > toMain =>
             \E endTime \in polls :
                /\ polls = {endTime} /\ now >= endTime
                /\ polls' = {} ]_vars

C10_Witness ==
    /\ lastOp = "tick"
    /\ Counting /\ activeEntry.type = "rest"
    /\ activeEntry.startedAt = now
    /\ now = EntryDeadline(db[activeEntry.id - 1])
    /\ toMain = 0
    /\ polls = {EntryDeadline(activeEntry)}

(* C11: the worker emits a completion event only for a deadline it polls
   for and that the clock has reached, one event at a time, and the poll
   ends with the emission: with no poll active nothing is emitted *)
C11_OneEventPerArming ==
    [][ toMain' # toMain =>
          \/ /\ toMain' = toMain + 1
             /\ \E endTime \in polls :
                  /\ now >= endTime
                  /\ endTime \notin polls'
                  /\ polls' \subseteq polls
          \/ toMain' < toMain ]_vars

C11_Witness ==
    /\ lastOp = "poll"
    /\ toMain = 1 /\ polls = {}
    /\ Counting /\ now >= EntryDeadline(activeEntry)

(* C12: stopping the worker leaves no poll active, whether a poll was active
   or not, and stopping it twice is the same as stopping it once; manual
   completion stops it; with no poll active no completion event is emitted *)
C12_DisarmIdempotent ==
    /\ [](/\ workerStop(Cur).polls = {}
          /\ workerStop(workerStop(Cur)) = workerStop(Cur))
    /\ [][ ManualComplete => polls' = {} ]_vars
    /\ [][ polls = {} => toMain' <= toMain ]_vars

C12_Witness ==
    /\ lastOp = "manual"
    /\ polls = {} /\ toMain = 0
    /\ \E i \in 1..Len(db) :
         db[i].completed = 1 /\ now < EntryDeadline(db[i])

(* C13: the Rest row inserted when a Work entry completes has type rest,
   duration 5, is not completed, carries the date of the Work entry just
   completed, and is the entry getOngoingEntry returns after the step *)
C13_RestOnWorkDate ==
    [][ (Len(db') = Len(db) + 1 /\ db'[Len(db')].type = "rest") =>
          LET rest == db'[Len(db')]
          IN  /\ activeEntry # null /\ activeEntry.type = "pomodoro"
              /\ rest.duration = REST_DURATION_MINUTES
              /\ rest.completed = 0
              /\ rest.date = activeEntry.date
              /\ getOngoingEntry(db') = rest ]_vars

(* C14: loading with no saved item or with a saved item that is not a
   database with the table makes the store ready with an empty table and
   leaves the engine Idle *)
C14_MalformedSnapshotIsEmpty ==
    [][ (InitEffect /\ (~snapshot.present \/ snapshot.malformed)) =>
          /\ dbReady' /\ db' = <<>>
          /\ ~isRunning' /\ activeEntry' = null ]_vars

(* C15: when the countdown of the running entry is observed at zero, the
   entry is marked complete in the database and the engine finishes the
   transition, to running a Rest entry after a Work entry and to Idle
   after a Rest entry, also when writing the snapshot fails *)
C15_WriteFailureKeepsTimer ==
    [][ (ZeroObserved /\ Counting) =>
          /\ Len(db') >= activeEntry.id
          /\ db'[activeEntry.id].completed = 1
          /\ mounted'
          /\ IF activeEntry.type = "pomodoro"
             THEN isRunning' /\ activeEntry' # null /\ activeEntry'.type = "rest"
             ELSE ~isRunning' /\ activeEntry' = null ]_vars

(* C16: getOngoingEntry returns the row with the highest id among the rows
   not completed, and returns null exactly when every row is completed *)
C16_OngoingIsHighestIncomplete ==
    dbReady =>
      IF Incomplete(db) = {} THEN getOngoingEntry(db) = null
      ELSE getOngoingEntry(db)
             = db[CHOOSE i \in Incomplete(db) : \A j \in Incomplete(db) : j <= i]

(* C17: an insert returns the id of the row it inserted, which is greater
   than every id before it, and the started_at stored in that row *)
C17_InsertReturnsNewRow ==
    dbReady =>
      \A date \in StoreDates :
        LET s == addPomodoro(Cur, <<"a">>, 25, date)
            row == s.db[Len(s.db)]
        IN  /\ Len(s.db) = Len(db) + 1
            /\ \A i \in 1..Len(db) : db[i].id < row.id
            /\ s.result.startedAt = row.startedAt
            /\ s.result.id = row.id

(* C18: getPomodorosForMonth gives, for each date of the month, the number
   of completed rows of type pomodoro on that date, and has no entry for a
   date with none or for a date of another month *)
YearOf(date) == date \div 10000
MonthOf(date) == (date \div 100) % 100

CompletedWork(d, date) ==
    { i \in 1..Len(d) :
        d[i].date = date /\ d[i].type = "pomodoro" /\ d[i].completed = 1 }

C18_MonthlyCountsCompletedWork ==
    dbReady =>
      \A ym \in StoreMonths : \A date \in StoreDates :
        LET counts == getPomodorosForMonth(db, ym.year, ym.month)
            expected == IF YearOf(date) = ym.year /\ MonthOf(date) = ym.month
                        THEN Cardinality(CompletedWork(db, date)) ELSE 0
        IN  IF expected = 0 THEN date \notin DOMAIN counts
            ELSE date \in DOMAIN counts /\ counts[date] = expected

C18_Witness ==
    /\ dbReady
    /\ \E i, j, k \in 1..Len(db) :
         /\ db[i].date = db[j].date /\ db[j].date = db[k].date
         /\ db[i].type = "pomodoro" /\ db[i].completed = 1
         /\ db[i].startedAt = NULL
         /\ db[j].type = "rest" /\ db[j].completed = 1
         /\ db[k].type = "pomodoro" /\ db[k].completed = 0

(* C19: saving the store, discarding it and loading it again gives the same
   rows in the same order for every date, and the same ongoing entry *)
C19_RoundTrip ==
    dbReady =>
      LET s == initDb(reload(Cur))
      IN  /\ ~s.thrown
          /\ \A date \in StoreDates :
               getPomodorosForDate(s.db, date) = getPomodorosForDate(db, date)
          /\ getOngoingEntry(s.db) = getOngoingEntry(db)

C19_Witness ==
    /\ lastOp = "store:init"
    /\ dbReady /\ snapshot.present /\ snapshot.hasType
    /\ \E i, j \in 1..Len(db) :
         /\ i < j /\ db[i].date = db[j].date
         /\ db[i].startedAt = db[j].startedAt /\ db[i].startedAt # NULL
         /\ db[i].completed = 1
         /\ db[j].completed = 0 /\ db[j].type = "rest"

(* C20: once the store is loaded, the saved item is the database in memory:
   it is absent only while the table is empty and nothing was written, and
   otherwise it is a database with the column type and the same rows *)
C20_SnapshotIsStore ==
    dbReady =>
      IF snapshot.present
      THEN ~snapshot.malformed /\ snapshot.hasType /\ snapshot.data = db
      ELSE db = <<>>

C20_Witness ==
    /\ lastOp = "store:init"
    /\ dbReady /\ snapshot.present /\ snapshot.hasType
    /\ Len(db) = 2
    /\ \A i \in 1..Len(db) : db[i].startedAt = NULL /\ db[i].type = "pomodoro"

(* C21: no step deletes a stored row or changes the id, name, duration,
   date, type or started_at of a stored row, and the completed flag of a
   stored row only goes from 0 to 1, over starts, completions, signals and
   reloads *)
RowKept(r, r2) ==
    /\ [mapRowToEntry(r2) EXCEPT !.completed = 0]
         = [mapRowToEntry(r) EXCEPT !.completed = 0]
    /\ r2.completed >= r.completed

C21_AppendOnly ==
    [][ /\ Len(StoredRows') >= Len(StoredRows)
        /\ \A i \in 1..Len(StoredRows) : RowKept(StoredRows[i], StoredRows'[i]) ]_vars

C21_Witness ==
    /\ lastOp = "init:resume"
    /\ Len(db) = 2
    /\ db[1].type = "pomodoro" /\ db[1].completed = 1
    /\ db[2].type = "rest" /\ db[2].completed = 0
    /\ activeEntry = db[2]

(* C22: completePomodoro on a completed row leaves the table and the saved
   item as they are; applied twice to a row it gives the table and the saved
   item that applying it once gives; no row but the one with the given id
   is changed *)
C22_CompleteIdempotent ==
    dbReady =>
      \A id \in 1..Len(db) :
        LET once == completePomodoro(Cur, id)
            twice == completePomodoro(once, id)
        IN  /\ OnlyCompleted(db, once.db, id)
            /\ once.db[id].completed = 1
            /\ twice.db = once.db /\ twice.snapshot = once.snapshot
            /\ db[id].completed = 1 =>
                  once.db = db /\ once.snapshot = snapshot

C22_Witness ==
    /\ lastOp = "store:complete"
    /\ dbReady /\ Len(db) = MaxStoreRows
    /\ \E i, j, k \in 1..Len(db) :
         /\ db[i].completed = 1 /\ db[i].startedAt # NULL
         /\ db[j].completed = 0 /\ db[j].type = "rest"
         /\ db[k].completed = 0 /\ db[k].type = "pomodoro" /\ k # j

(* C23: loading a saved database whose table has no column type keeps every
   row, with its other fields as saved, and gives it type pomodoro, and
   saves the result; loading a saved database that has the column changes
   nothing and writes nothing; with no saved item the load gives an empty
   table and writes nothing; no load fails, and loading again gives the
   same table *)
C23_MigrateAdditive ==
    /\ [](~dbReady =>
            /\ ~initDb(Cur).thrown
            /\ initDb(reload(initDb(Cur))).db = initDb(Cur).db
            /\ (~snapshot.present \/ snapshot.hasType) => initDb(Cur).calls = <<>>)
    /\ [][ StoreInit =>
             IF ~snapshot.present THEN db' = <<>> /\ snapshot' = snapshot
             ELSE IF snapshot.hasType
             THEN db' = snapshot.data /\ snapshot' = snapshot
             ELSE /\ Len(db') = Len(snapshot.data)
                  /\ \A i \in 1..Len(db') :
                       db'[i] = [snapshot.data[i] EXCEPT !.type = "pomodoro"]
                  /\ snapshot'.present /\ snapshot'.hasType
                  /\ snapshot'.data = db' ]_vars

C23_Witness ==
    /\ lastOp = "store:init"
    /\ dbReady /\ snapshot.present /\ snapshot.hasType
    /\ Len(db) = 3
    /\ db[1] = [LegacyRow(1, 20240301, 1) EXCEPT !.type = "pomodoro"]
    /\ db[2] = [LegacyRow(2, 20240301, 0) EXCEPT !.type = "pomodoro"]
    /\ db[3].type = "rest"

(* C24: every stored row of type pomodoro has a name of 1 to 100 characters
   with no space at either end and a duration greater than 0 and at most
   60; every stored row of type rest has the name 'Rest' and the duration
   of 5 minutes *)
WellFormed(row) ==
    IF row.type = "rest"
    THEN /\ row.name = <<"R", "e", "s", "t">>
         /\ row.duration = 5
    ELSE /\ Len(row.name) \in 1..100
         /\ row.name[1] # " " /\ row.name[Len(row.name)] # " "
         /\ row.duration > 0 /\ row.duration <= 60

C24_RowsWellFormed ==
    \A i \in 1..Len(StoredRows) : WellFormed(mapRowToEntry(StoredRows[i]))

C24_Witness ==
    /\ Len(db) = 2
    /\ db[1].type = "pomodoro" /\ Len(db[1].name) = 100 /\ db[1].duration = 60
    /\ db[2].type = "rest" /\ db[2].startedAt = EntryDeadline(db[1])

(* C25: with the worker polling and its messages delivered, and with no
   command of the user after the start, an engine that is running ends up
   Idle with every stored entry completed, the Work entry and the Rest
   entry that followed it, also when the countdown interval of the page
   never fires *)
AllDone ==
    /\ Idle
    /\ Incomplete(db) = {}
    /\ \E i, j \in 1..Len(db) :
         /\ db[i].type = "pomodoro" /\ db[j].type = "rest" /\ j = i + 1

C25_BackgroundCompletes == Counting ~> AllDone

C25_Witness ==
    /\ AllDone
    /\ lastOp = "message"
    /\ timeLeft = 0
    /\ now = EntryDeadline(db[Len(db)])

(* C26: when the countdown of a running Rest entry is observed at zero, by
   the tick, by the worker's message or by the recomputation on regaining
   visibility, that step marks the Rest entry complete and changes no other
   row, inserts no row, stops the worker and leaves the engine Idle *)
RestObservedAtZero ==
    /\ Counting /\ activeEntry.type = "rest"
    /\ \/ ZeroObserved
       \/ VisibilityChange /\ now >= EntryDeadline(activeEntry)

C26_RestCompletionEnds ==
    [][ RestObservedAtZero =>
          /\ OnlyCompleted(db, db', activeEntry.id)
          /\ db'[activeEntry.id].completed = 1
          /\ snapshot'.data = db'
          /\ polls' = {}
          /\ ~isRunning' /\ activeEntry' = null ]_vars

C26_Witness ==
    /\ lastOp = "tick"
    /\ Idle /\ polls = {} /\ timeLeft = 0
    /\ Len(db) = 2 /\ Incomplete(db) = {}
    /\ db[2].type = "rest" /\ now = EntryDeadline(db[2])

(* C27: the worker's message handled while no entry is running changes
   neither the table nor the saved item, leaves the engine not running
   with no active entry and the worker as it is; a start accepted after it
   runs the new entry with its full duration as the remaining time and the
   worker armed for its deadline *)
StartsInFull(s, in) ==
    LET seconds == parseFloat(in.newDuration).value * SECONDS_PER_MINUTE
    IN  \A t \in {effects(s, handleStartPomodoro(s, in.newName, in.newDuration))} :
          /\ Len(t.db) = Len(s.db) + 1
          /\ t.isRunning /\ t.activeEntry = t.db[Len(t.db)]
          /\ t.activeEntry.completed = 0
          /\ t.activeEntry.startedAt = now
          /\ t.timeLeft = seconds
          /\ t.polls = {now + seconds}

C27_IdleSignalIsNoOp ==
    (dbReady /\ ~isRunning) =>
      /\ toMain > 0 =>
           \A s1 \in {effects(Cur, onmessage(Cur))} :
               /\ s1.db = db /\ s1.snapshot = snapshot
               /\ s1.isRunning = isRunning /\ s1.activeEntry = activeEntry
               /\ s1.polls = polls
      /\ lastOp = "message" =>
           \A in \in FormInputs : Acceptable(in) => StartsInFull(Cur, in)

C27_Witness ==
    /\ lastOp = "message"
    /\ Idle /\ FormReachable /\ timeLeft = 0 /\ toMain = 0
    /\ Len(db) = 1 /\ db[1].completed = 1
    /\ now >= EntryDeadline(db[1])

(* C28: a click on a listed entry that is not completed and whose deadline
   has not passed leaves the engine running with the clicked entry as the
   active entry, the remaining time of the clicked entry on display and the
   worker armed for the clicked entry's deadline; a click on a completed
   entry changes nothing *)
C28_ClickResumesClicked ==
    [][ \A i \in 1..Len(pomodoros) :
          (/\ MainView /\ lastOp' = "click"
           /\ Step(handleEntryClick(Cur, pomodoros[i]), "click")) =>
            LET entry == pomodoros[i]
            IN  IF entry.completed = 1
                THEN UNCHANGED <<now, db, snapshot, quota, mounted, dbReady,
                                 currentDate, pomodoros, activeEntry, timeLeft,
                                 isRunning, showTimer, completedRef, tickDue,
                                 armTimer, polls, toMain>>
                ELSE (entry.startedAt # NULL /\ now < EntryDeadline(entry)) =>
                       /\ isRunning' /\ activeEntry' = entry
                       /\ timeLeft' = EntryDeadline(entry) - now
                       /\ polls' = {EntryDeadline(entry)} ]_vars

(* C29: the handler of the tab becoming visible sets the remaining time of
   a running entry to its deadline minus now, and to 0 past the deadline,
   whatever the countdown shows, and leaves it as it is when nothing runs;
   it calls stopAllSounds in both cases, after which neither sound plays
   or loops *)
C29_VisibleRecomputes ==
    mounted =>
      LET s == handleVisibilityChange(Cur)
      IN  /\ s.calls = <<"stopAllSounds">>
          /\ \A a \in AudioStates :
               \A snd \in DOMAIN a :
                 ~stopAllSounds(a)[snd].playing /\ ~stopAllSounds(a)[snd].loop
          /\ s.timeLeft = IF ~Counting THEN timeLeft
                          ELSE IF now >= EntryDeadline(activeEntry) THEN 0
                          ELSE EntryDeadline(activeEntry) - now
          /\ (lastOp = "visible" /\ Counting /\ now < EntryDeadline(activeEntry)) =>
                timeLeft = EntryDeadline(activeEntry) - now

C29_Witness ==
    /\ lastOp = "visible"
    /\ Counting /\ tickDue
    /\ activeEntry.duration = 60
    /\ now = EntryDeadline(activeEntry) - 1
    /\ timeLeft = 1

(* C30: every step that arms the worker while an entry is running, a
   start, the change from work to rest, the timeout after a resume on load
   or a click on an entry, arms it for the deadline of the entry that is
   running after the step, its started_at plus its duration *)
C30_ArmedForActiveEntry ==
    [][ (polls' # polls /\ polls' # {} /\ isRunning' /\ activeEntry' # null) =>
          polls' = {EntryDeadline(activeEntry')} ]_vars

(* C31: a step that marks a stored row completed and is not the manual
   completion happens at the row's deadline, its started_at plus its
   duration, or later, whatever the order of commands, ticks and messages
   of the worker; the clocks count whole seconds, and a completion within
   the last second before the deadline counts as at the deadline *)
C31_NoEarlyCompletion ==
    [][ \A i \in 1..Len(StoredRows) :
          (/\ StoredRows[i].completed = 0
           /\ StoredRows'[i].completed = 1
           /\ lastOp' # "manual") =>
            now' >= EntryDeadline(StoredRows[i]) - 1 ]_vars

(* C32: whenever the engine runs an entry, the row of that entry is in the
   table, is not completed, and is the entry getOngoingEntry returns *)
C32_ActiveEntryIsOngoing ==
    Counting =>
      /\ activeEntry.id \in 1..Len(db)
      /\ db[activeEntry.id].completed = 0
      /\ getOngoingEntry(db) = activeEntry

(* C33: a rest row is inserted only by the completion effect, one row in a
   step, while a Work entry is the running entry, in a step of the tick, of
   the worker's message or of the recomputation on regaining visibility,
   after which that Work entry's row is completed and the effect is closed
   for that entry; and up to every rest row the table holds no more rest
   rows than completed rows of type pomodoro before it *)
RestsUpTo(d, i) == { j \in Rests(d) : j <= i }
WorkDoneBefore(d, i) ==
    { j \in 1..(i - 1) : d[j].type = "pomodoro" /\ d[j].completed = 1 }

C33_RestOnlyAfterWork ==
    /\ [](\A i \in Rests(StoredRows) :
            Cardinality(RestsUpTo(StoredRows, i))
              <= Cardinality(WorkDoneBefore(StoredRows, i)))
    /\ [][ Cardinality(Rests(StoredRows')) > Cardinality(Rests(StoredRows)) =>
             /\ Len(StoredRows') = Len(StoredRows) + 1
             /\ StoredRows'[Len(StoredRows')].type = "rest"
             /\ Counting /\ activeEntry.type = "pomodoro"
             /\ StoredRows'[activeEntry.id].completed = 1
             /\ completedRef # activeEntry.id /\ completedRef' = activeEntry.id
             /\ lastOp' \in {"tick", "message", "visible"} ]_vars

C33_Witness ==
    /\ lastOp = "tick"
    /\ Len(db) = 2 /\ Rests(db) = {2}
    /\ db[1].completed = 1 /\ completedRef = 1
    /\ activeEntry = db[2] /\ isRunning
    /\ timeLeft = REST_DURATION_MINUTES * SECONDS_PER_MINUTE

(* The calls a step makes to the notification and to the completion sounds *)
SinkNames ==
    {"showTimerComplete:pomodoro", "playWorkComplete",
     "showTimerComplete:rest", "playRestComplete"}
Sinks(s) == SelectSeq(s.calls, LAMBDA c : c \in SinkNames)
SinksOfKind(type) ==
    IF type = "pomodoro"
    THEN <<"showTimerComplete:pomodoro", "playWorkComplete">>
    ELSE <<"showTimerComplete:rest", "playRestComplete">>

(* The step to t notifies and sounds once, for the kind of the running entry,
   when that entry's row is completed and the engine leaves the entry, and
   not at all otherwise *)
NotifiesOnCompletion(t) ==
    Sinks(t) = IF /\ Counting
                  /\ t.activeEntry # activeEntry
                  /\ t.db[activeEntry.id].completed = 1
               THEN SinksOfKind(activeEntry.type)
               ELSE <<>>

(* C34: a tick, a worker message and a visibility change show the
   notification and play the completion sound exactly once, for the kind of
   the running entry, in the step that completes that entry, and not
   otherwise; manual completion, the initialisation (resume on load, also of
   an expired entry) and a click on an entry call neither *)
C34_SinksOnDeadlineOnly ==
    /\ (Counting /\ tickDue) => NotifiesOnCompletion(effects(Cur, tick(Cur)))
    /\ toMain > 0 => NotifiesOnCompletion(effects(Cur, onmessage(Cur)))
    /\ mounted => NotifiesOnCompletion(effects(Cur, handleVisibilityChange(Cur)))
    /\ TimerView => Sinks(effects(Cur, handleManualComplete(Cur))) = <<>>
    /\ (mounted /\ ~dbReady) => Sinks(effects(Cur, initEffect(Cur))) = <<>>
    /\ MainView =>
         \A i \in 1..Len(pomodoros) :
            Sinks(effects(Cur, handleEntryClick(Cur, pomodoros[i]))) = <<>>

C34_Witness ==
    /\ Counting /\ tickDue /\ timeLeft = 1
    /\ activeEntry.type = "rest"
    /\ now = EntryDeadline(activeEntry) - 1
    /\ Sinks(effects(Cur, tick(Cur))) = SinksOfKind("rest")
    /\ effects(Cur, tick(Cur)).activeEntry = null

(* C35: whenever no entry runs, the worker polls for no deadline and no
   delayed 'start' message to the worker is pending *)
C35_IdleIsDisarmed ==
    Idle => (polls = {} /\ armTimer = NULL)

====
